---------------------------- MODULE Spec2Model ----------------------------
(***************************************************************************)
(* Model of the post-analysis application (src/src/app.py).                *)
(*                                                                         *)
(* Application.run loads a CSV of posts, Application.analyze_posts         *)
(* validates the schema, splits the posts into top_posts / other_posts     *)
(* and collects the daily top posts, and run writes the three results.     *)
(*                                                                         *)
(* A DataFrame is a record [kind, dtypes, rows]: dtypes maps each column   *)
(* that is present to its pandas dtype, rows is the sequence of rows in    *)
(* frame order, each row carrying its index label in the field "index".    *)
(***************************************************************************)
EXTENDS Integers, Sequences, FiniteSets, TLC

VARIABLES
    hash_order,          \* iteration order of the frozenset _VALID_COLUMNS in this process
    csv,                 \* the content of the posts file
    pc,                  \* position of Application.run
    posts_df,            \* run: df / analyze_posts: posts_df
    top_posts_df,        \* analyze_posts: top_posts_df
    other_posts_df,      \* analyze_posts: other_posts_df
    daily_top_posts_df,  \* analyze_posts: daily_top_posts_df
    ret,                 \* the tuple analyze_posts has returned to its caller
    error,               \* the exception that ended the run
    written,             \* the output files this run has written
    prev                 \* outcome of the previous analyze_posts call on this input

vars == <<hash_order, csv, pc, posts_df, top_posts_df, other_posts_df,
          daily_top_posts_df, ret, error, written, prev>>

---------------------------------------------------------------------------
(* Bounds of the explored inputs *)

MaxRows == 3

MaxDefects == 2

---------------------------------------------------------------------------
(* Program constants *)

C_ID == "id"
C_TITLE == "title"
C_PRIVACY == "privacy"
C_LIKES == "likes"
C_VIEWS == "views"
C_COMMENTS == "comments"
C_TIMESTAMP == "timestamp"

MIN_NUM_COMMENTS == 10
MIN_NUM_VIEWS == 9000
MAX_NUM_TITLE_CHARS == 40
PRIVACY_TYPE == "public"

TOP_POSTS_FILE_NAME == "top_posts"
OTHER_POSTS_FILE_NAME == "other_posts"
DAILY_TOP_POSTS_FILE_NAME == "daily_top_posts"

\* The (name, dtype) pairs in the order the source lists them.  np.int is the
\* builtin int, np.object the builtin object.
DeclaredColumns ==
    << <<C_ID, "int">>, <<C_TITLE, "object">>, <<C_PRIVACY, "object">>,
       <<C_LIKES, "int">>, <<C_VIEWS, "int">>, <<C_COMMENTS, "int">>,
       <<C_TIMESTAMP, "object">> >>

\* _VALID_COLUMNS is a frozenset: the pairs without their order.
VALID_COLUMNS == {DeclaredColumns[i] : i \in 1..Len(DeclaredColumns)}

ColumnNames == {c[1] : c \in VALID_COLUMNS}

\* Iterating a frozenset of (str, type) tuples follows their hashes, which
\* change from one interpreter process to the next (str hashes are salted,
\* type hashes are addresses).  validate_schema stops at the first column
\* it objects to, so all that matters of an order is which column comes
\* before which; the rotations of the declaration order put every column
\* first, and so make every column of a table the first one met.
IterationOrders ==
    { [i \in 1..Len(DeclaredColumns) |->
          DeclaredColumns[((i - 1 + k) % Len(DeclaredColumns)) + 1]]
      : k \in 0..(Len(DeclaredColumns) - 1) }

None == [kind |-> "None"]

NoError == [kind |-> "NoError"]

---------------------------------------------------------------------------
(* dtypes *)

\* `df[name].dtype != dtype`: numpy compares a dtype with a Python type by
\* converting the type: int is int64, object is the object dtype.
DtypeEquals(actual, dtype) ==
    \/ dtype = "int" /\ actual = "int64"
    \/ dtype = "object" /\ actual = "object"


---------------------------------------------------------------------------
(* Application.validate_schema *)

MissingColumnException(name) ==
    [kind |-> "MissingColumnException", column |-> name]

UnsupportedColumnTypeException(name, dtype, actual) ==
    [kind |-> "UnsupportedColumnTypeException", column |-> name,
     expected |-> dtype, actual |-> actual]

\* The body of `for name, dtype in _VALID_COLUMNS`, from the i-th pair of the
\* iteration order on: the exception raised, or NoError when the loop ends.
RECURSIVE ValidateFrom(_, _, _)
ValidateFrom(df, order, i) ==
    IF i > Len(order) THEN NoError
    ELSE LET name == order[i][1]
             dtype == order[i][2]
         IN  IF name \notin DOMAIN df.dtypes
             THEN MissingColumnException(name)
             ELSE IF ~DtypeEquals(df.dtypes[name], dtype)
             THEN UnsupportedColumnTypeException(name, dtype, df.dtypes[name])
             ELSE ValidateFrom(df, order, i + 1)

\* A validate_schema that forgets the dtype comparison.
ValidateSchemaNoDtype(df, order) ==
    LET missing == {i \in 1..Len(order) : order[i][1] \notin DOMAIN df.dtypes}
    IN  IF missing = {} THEN NoError
        ELSE MissingColumnException(
                 order[CHOOSE i \in missing : \A j \in missing : i <= j][1])

\* A validate_schema that never raises.
ValidateSchemaNever(df, order) == NoError

validate_schema(df, order) == ValidateFrom(df, order, 1)

---------------------------------------------------------------------------
(* Application.analyze_posts: the classification *)

\* A condition that takes "over 10 comments" as "10 or more".
ConditionCommentsInclusive(row) ==
    /\ row.privacy = PRIVACY_TYPE
    /\ row.comments >= MIN_NUM_COMMENTS
    /\ row.views > MIN_NUM_VIEWS
    /\ Len(row.title) < MAX_NUM_TITLE_CHARS

\* `condition`, row by row.
Condition(row) ==
    /\ row.privacy = PRIVACY_TYPE
    /\ row.comments > MIN_NUM_COMMENTS
    /\ row.views > MIN_NUM_VIEWS
    /\ Len(row.title) < MAX_NUM_TITLE_CHARS

\* posts_df.loc[condition]: the rows where the mask holds, labels and order kept.
TopPosts(df) ==
    LET Keep(row) == Condition(row)
    IN  [df EXCEPT !.rows = SelectSeq(df.rows, Keep)]

\* `~a & b & c & d`: a negation that binds to the first comparison only.
OtherPostsNegatesFirst(df) ==
    LET Keep(row) ==
            /\ row.privacy # PRIVACY_TYPE
            /\ row.comments > MIN_NUM_COMMENTS
            /\ row.views > MIN_NUM_VIEWS
            /\ Len(row.title) < MAX_NUM_TITLE_CHARS
    IN  [df EXCEPT !.rows = SelectSeq(df.rows, Keep)]

\* posts_df.loc[~condition].drop_duplicates("id"): one row per id.
OtherPostsDropDuplicates(df) ==
    LET Keep(row) == ~Condition(row)
        rest == SelectSeq(df.rows, Keep)
        first == {i \in 1..Len(rest) : \A j \in 1..(i - 1) : rest[j].id # rest[i].id}
        IsFirst(row) == \E i \in first : rest[i] = row
    IN  [df EXCEPT !.rows = SelectSeq(rest, IsFirst)]

\* posts_df.loc[~condition]
OtherPosts(df) ==
    LET Keep(row) == ~Condition(row)
    IN  [df EXCEPT !.rows = SelectSeq(df.rows, Keep)]

---------------------------------------------------------------------------
(* Application.__collect_daily_top_posts *)

ParserError == [kind |-> "ParserError"]

\* pd.to_datetime on one timestamp string.
ToDatetime(timestamp) ==
    CASE timestamp = "2015-10-16 08:00:00" ->
             [kind |-> "Timestamp", year |-> 2015, month |-> 10, day |-> 16,
              hour |-> 8, minute |-> 0, second |-> 0]
      [] timestamp = "Fri Oct 16 23:42:44 2015" ->
             [kind |-> "Timestamp", year |-> 2015, month |-> 10, day |-> 16,
              hour |-> 23, minute |-> 42, second |-> 44]
      [] timestamp = "2015-10-17 00:00:01" ->
             [kind |-> "Timestamp", year |-> 2015, month |-> 10, day |-> 17,
              hour |-> 0, minute |-> 0, second |-> 1]
      [] OTHER -> ParserError

\* lambda x: x.date()
Date(x) == [year |-> x.year, month |-> x.month, day |-> x.day]

\* The order groupby sorts its keys in.
DateBefore(a, b) ==
    \/ a.year < b.year
    \/ a.year = b.year /\ a.month < b.month
    \/ a.year = b.year /\ a.month = b.month /\ a.day < b.day

RECURSIVE SortedDates(_)
SortedDates(S) ==
    IF S = {} THEN << >>
    ELSE LET first == CHOOSE d \in S : \A e \in S \ {d} : DateBefore(d, e)
         IN  <<first>> \o SortedDates(S \ {first})

Labels(df) == {df.rows[i].index : i \in 1..Len(df.rows)}

\* df.loc[label]
RowAt(df, label) ==
    df.rows[CHOOSE i \in 1..Len(df.rows) : df.rows[i].index = label]

\* groupby_timestamp[C_LIKES].idxmax(): df.reset_index() relabels the rows
\* 0..k-1 (the likes of new label p are those of the p-th row of df, counted
\* from 0), while the grouping key is a Series that still carries the labels
\* of df and that groupby aligns with the new labels: the key of new label p
\* is the date of the row of df labelled p, and is missing (the row is left
\* out of every group) when df has no such label.  The result holds, for
\* each date in date order, the first new label with the largest likes.
IdxMax(df) ==
    LET k == Len(df.rows)
        positions == 0..(k - 1)
        HasKey(p) == p \in Labels(df)
        KeyOf(p) == Date(ToDatetime(RowAt(df, p).timestamp))
        LikesOf(p) == df.rows[p + 1].likes
        grouped == {p \in positions : HasKey(p)}
        dates == {KeyOf(p) : p \in grouped}
        Group(d) == {p \in grouped : KeyOf(p) = d}
        First(d) ==
            CHOOSE p \in Group(d) :
                \A q \in Group(d) :
                    \/ LikesOf(q) < LikesOf(p)
                    \/ LikesOf(q) = LikesOf(p) /\ p <= q
        keys == SortedDates(dates)
    IN  [j \in 1..Len(keys) |-> First(keys[j])]

\* df.loc[labels]
Loc(df, labels) ==
    [df EXCEPT !.rows = [j \in 1..Len(labels) |-> RowAt(df, labels[j])]]

\* pd.to_datetime(df[C_TIMESTAMP]) raises when one timestamp of df does not parse.
TimestampsParse(df) ==
    \A i \in 1..Len(df.rows) : ToDatetime(df.rows[i].timestamp).kind = "Timestamp"

\* A collection over the whole table instead of the frame it is handed.
CollectDailyOfAllPosts(df) ==
    IF TimestampsParse(posts_df) THEN Loc(posts_df, IdxMax(posts_df)) ELSE ParserError

collect_daily_top_posts(df) ==
    IF TimestampsParse(df) THEN Loc(df, IdxMax(df)) ELSE ParserError

---------------------------------------------------------------------------
(* The posts files explored *)

\* A post that meets every criterion of a top post.
SamplePost ==
    [id |-> 1, title |-> "A title that is 39 characters long, ok.",
     privacy |-> "public", likes |-> 5,
     views |-> 9001, comments |-> 11, timestamp |-> "2015-10-16 08:00:00"]

\* SamplePost with one field changed, and a post that is neither public nor dated.
SamplePosts ==
    { SamplePost,
      [SamplePost EXCEPT !.id = 2],
      [SamplePost EXCEPT !.privacy = "private"],
      [SamplePost EXCEPT !.comments = 10],
      [SamplePost EXCEPT !.views = 9000],
      [SamplePost EXCEPT !.title = "A title that is 40 characters long, ok.."],
      [SamplePost EXCEPT !.likes = 10],
      [SamplePost EXCEPT !.timestamp = "Fri Oct 16 23:42:44 2015"],
      [SamplePost EXCEPT !.timestamp = "2015-10-17 00:00:01"],
      [SamplePost EXCEPT !.timestamp = "yesterday-ish"],
      [SamplePost EXCEPT !.privacy = "private", !.timestamp = "yesterday-ish"] }

\* The dtypes pd.read_csv infers for a file of such posts.
InferredDtypes ==
    [name \in ColumnNames |->
        IF name \in {C_TITLE, C_PRIVACY, C_TIMESTAMP} THEN "object" ELSE "int64"]

DefectKinds == {"missing", "bool", "float64", "swapped"}

\* The dtypes of a table whose columns D are defective as g says.
DefectiveDtypes(D, g) ==
    [name \in ColumnNames \ {c \in D : g[c] = "missing"} |->
        IF name \notin D THEN InferredDtypes[name]
        ELSE IF g[name] = "swapped"
        THEN (IF InferredDtypes[name] = "int64" THEN "object" ELSE "int64")
        ELSE g[name]]

PostsFiles ==
    { [dtypes |-> InferredDtypes, rows |-> rows] :
        rows \in UNION {[1..n -> SamplePosts] : n \in 0..MaxRows} }
    \cup
    UNION { { [dtypes |-> DefectiveDtypes(D, g), rows |-> << >>] : g \in [D -> DefectKinds] }
            : D \in {E \in SUBSET ColumnNames :
                        Cardinality(E) >= 1 /\ Cardinality(E) <= MaxDefects} }

\* pd.read_csv: the rows of the file under a RangeIndex 0..n-1.
read_csv(file) ==
    [kind |-> "DataFrame",
     dtypes |-> file.dtypes,
     rows |-> [i \in 1..Len(file.rows) |->
                  [index |-> i - 1,
                   id |-> file.rows[i].id,
                   title |-> file.rows[i].title,
                   privacy |-> file.rows[i].privacy,
                   likes |-> file.rows[i].likes,
                   views |-> file.rows[i].views,
                   comments |-> file.rows[i].comments,
                   timestamp |-> file.rows[i].timestamp]]]

---------------------------------------------------------------------------
(* Application.run *)

Init ==
    /\ hash_order \in IterationOrders
    /\ csv \in PostsFiles
    /\ pc = "load_posts"
    /\ posts_df = None
    /\ top_posts_df = None
    /\ other_posts_df = None
    /\ daily_top_posts_df = None
    /\ ret = None
    /\ error = NoError
    /\ written = {}
    /\ prev = None

\* df = self.load_posts(posts_path)
LoadPosts ==
    /\ pc = "load_posts"
    /\ posts_df' = read_csv(csv)
    /\ pc' = "validate_schema"
    /\ UNCHANGED <<hash_order, csv, top_posts_df, other_posts_df,
                   daily_top_posts_df, ret, error, written, prev>>

\* pd.read_csv raises (no such file, unreadable file)
LoadPostsFails ==
    /\ pc = "load_posts"
    /\ error' = [kind |-> "OSError"]
    /\ pc' = "failed"
    /\ UNCHANGED <<hash_order, csv, posts_df, top_posts_df, other_posts_df,
                   daily_top_posts_df, ret, written, prev>>

\* self.validate_schema(posts_df)
ValidateSchema ==
    /\ pc = "validate_schema"
    /\ LET raised == validate_schema(posts_df, hash_order)
       IN  IF raised = NoError
           THEN /\ pc' = "classify"
                /\ UNCHANGED error
           ELSE /\ pc' = "failed"
                /\ error' = raised
    /\ UNCHANGED <<hash_order, csv, posts_df, top_posts_df, other_posts_df,
                   daily_top_posts_df, ret, written, prev>>

\* condition = ...; top_posts_df = ...; other_posts_df = ...
Classify ==
    /\ pc = "classify"
    /\ top_posts_df' = TopPosts(posts_df)
    /\ other_posts_df' = OtherPosts(posts_df)
    /\ pc' = "collect_daily_top_posts"
    /\ UNCHANGED <<hash_order, csv, posts_df, daily_top_posts_df, ret, error,
                   written, prev>>

\* daily_top_posts_df = self.__collect_daily_top_posts(top_posts_df); return ...
CollectDailyTopPosts ==
    /\ pc = "collect_daily_top_posts"
    /\ LET daily == collect_daily_top_posts(top_posts_df)
       IN  IF daily = ParserError
           THEN /\ pc' = "failed"
                /\ error' = ParserError
                /\ top_posts_df' = None
                /\ other_posts_df' = None
                /\ UNCHANGED <<daily_top_posts_df, ret>>
           ELSE /\ pc' = "write_top_posts"
                /\ daily_top_posts_df' = daily
                /\ ret' = [kind |-> "Tuple", top_posts |-> top_posts_df,
                           other_posts |-> other_posts_df, daily_top_posts |-> daily]
                /\ UNCHANGED <<top_posts_df, other_posts_df, error>>
    /\ UNCHANGED <<hash_order, csv, posts_df, written, prev>>

\* __write_df with include_full_record left at its default: df = df[C_ID]
Ids(df) == [i \in 1..Len(df.rows) |-> df.rows[i].id]

WriteDf(df, name, next) ==
    /\ written' = written \cup {[file |-> name, ids |-> Ids(df)]}
    /\ pc' = next
    /\ UNCHANGED <<hash_order, csv, posts_df, top_posts_df, other_posts_df,
                   daily_top_posts_df, ret, error, prev>>

WriteTopPosts ==
    /\ pc = "write_top_posts"
    /\ WriteDf(ret.top_posts, TOP_POSTS_FILE_NAME, "write_other_posts")

WriteOtherPosts ==
    /\ pc = "write_other_posts"
    /\ WriteDf(ret.other_posts, OTHER_POSTS_FILE_NAME, "write_daily_top_posts")

WriteDailyTopPosts ==
    /\ pc = "write_daily_top_posts"
    /\ WriteDf(ret.daily_top_posts, DAILY_TOP_POSTS_FILE_NAME, "done")

\* What the last analyze_posts call came to: its tuple or its exception.
Outcome == [kind |-> "Outcome", ret |-> ret, error |-> error]

\* The run is started again on the same file into an empty output directory.
Restart ==
    /\ pc \in {"done", "failed"}
    /\ prev' = IF posts_df # None THEN Outcome ELSE prev
    /\ pc' = "load_posts"
    /\ posts_df' = None
    /\ top_posts_df' = None
    /\ other_posts_df' = None
    /\ daily_top_posts_df' = None
    /\ ret' = None
    /\ error' = NoError
    /\ written' = {}
    /\ UNCHANGED csv

\* ... by the same interpreter process (a second call of run)
RunAgain ==
    /\ Restart
    /\ UNCHANGED hash_order

\* ... by a new interpreter process (python -m invoked again)
RunAgainInNewProcess ==
    /\ Restart
    /\ hash_order' \in IterationOrders

Next ==
    \/ LoadPosts
    \/ LoadPostsFails
    \/ ValidateSchema
    \/ Classify
    \/ CollectDailyTopPosts
    \/ WriteTopPosts
    \/ WriteOtherPosts
    \/ WriteDailyTopPosts
    \/ RunAgain
    \/ RunAgainInNewProcess

Spec == Init /\ [][Next]_vars

---------------------------------------------------------------------------
(* Vocabulary of the properties *)

IdSet(df) == {df.rows[i].id : i \in 1..Len(df.rows)}

RowSet(df) == {df.rows[i] : i \in 1..Len(df.rows)}

DistinctIds(df) ==
    \A i, j \in 1..Len(df.rows) : df.rows[i].id = df.rows[j].id => i = j

\* The criteria of a top post as the documentation words them.
MeetsCriteria(row) ==
    /\ row.privacy = "public"
    /\ row.comments > 10
    /\ row.views > 9000
    /\ Len(row.title) < 40

DateOf(row) == Date(ToDatetime(row.timestamp))

TopDates == {DateOf(row) : row \in RowSet(ret.top_posts)}

RequiredColumns == <<"id", "title", "privacy", "likes", "views", "comments", "timestamp">>

RequiredDtype(name) ==
    IF name \in {"id", "likes", "views", "comments"} THEN "int64" ELSE "object"

AllColumnsPresent(df) ==
    \A i \in 1..Len(RequiredColumns) : RequiredColumns[i] \in DOMAIN df.dtypes

Mismatched(df) ==
    {name \in DOMAIN df.dtypes :
        /\ \E i \in 1..Len(RequiredColumns) : RequiredColumns[i] = name
        /\ df.dtypes[name] # RequiredDtype(name)}

SchemaIsValid(df) == AllColumnsPresent(df) /\ Mismatched(df) = {}

\* validate_schema has been called on posts_df and has ended.
ValidationEnded == posts_df # None /\ pc # "validate_schema"

\* What validate_schema raised (a later step of the run may raise as well).
ValidationRaised ==
    IF error.kind \in {"MissingColumnException", "UnsupportedColumnTypeException"}
    THEN error ELSE NoError

---------------------------------------------------------------------------
(* Properties *)

\* C1 as stated: for every table that passes validate_schema, the top_posts
\* and other_posts that analyze_posts returns share no id, and their ids
\* together are the ids of the input table.
C1_DisjointIdsOfEveryTable ==
    ret # None =>
        /\ IdSet(ret.top_posts) \cap IdSet(ret.other_posts) = {}
        /\ IdSet(ret.top_posts) \cup IdSet(ret.other_posts) = IdSet(posts_df)

\* C1 amended: for every table that passes validate_schema the ids of
\* top_posts and other_posts together are the ids of the input table, and
\* when the ids of the input table are pairwise distinct the two share no id.
C1_DisjointIdsOfDistinctIds ==
    ret # None =>
        /\ IdSet(ret.top_posts) \cup IdSet(ret.other_posts) = IdSet(posts_df)
        /\ DistinctIds(posts_df) =>
               IdSet(ret.top_posts) \cap IdSet(ret.other_posts) = {}

C1_Witness ==
    /\ ret # None
    /\ DistinctIds(posts_df)
    /\ Len(ret.top_posts.rows) >= 1
    /\ Len(ret.other_posts.rows) >= 1

\* C2: a row is in top_posts exactly when it is public, has more than 10
\* comments, more than 9000 views and a title of fewer than 40 characters;
\* every row of other_posts fails one of the four; rows with 10 comments,
\* 9000 views or a 40-character title are in other_posts, and a row with a
\* 39-character title that meets the other three is in top_posts.
C2_TopIffCriteria ==
    ret # None =>
        \A row \in RowSet(posts_df) :
            /\ row \in RowSet(ret.top_posts) <=> MeetsCriteria(row)
            /\ row \in RowSet(ret.other_posts) => ~MeetsCriteria(row)
            /\ (row.comments = 10 \/ row.views = 9000 \/ Len(row.title) = 40)
                   => row \in RowSet(ret.other_posts)
            /\ ( /\ Len(row.title) = 39
                 /\ row.privacy = "public"
                 /\ row.comments > 10
                 /\ row.views > 9000 )
                   => row \in RowSet(ret.top_posts)

C2_Witness ==
    /\ ret # None
    /\ \E row \in RowSet(ret.top_posts) : Len(row.title) = 39
    /\ \E row \in RowSet(ret.other_posts) : row.comments = 10 /\ row.privacy = "public"
    /\ \E row \in RowSet(ret.other_posts) : Len(row.title) = 40 /\ row.privacy = "public"

\* C3: whenever analyze_posts returns, every row of daily_top_posts is a row
\* of top_posts (so its id is an id of top_posts) and none is a row of
\* other_posts.
C3_DailySubsetOfTop ==
    ret # None =>
        /\ RowSet(ret.daily_top_posts) \subseteq RowSet(ret.top_posts)
        /\ IdSet(ret.daily_top_posts) \subseteq IdSet(ret.top_posts)
        /\ RowSet(ret.daily_top_posts) \cap RowSet(ret.other_posts) = {}

C3_Witness ==
    /\ ret # None
    /\ Len(ret.daily_top_posts.rows) >= 1
    /\ Len(ret.other_posts.rows) >= 1
    /\ ret.other_posts.rows[1].index = 0

\* C4 as stated: daily_top_posts holds exactly one row for each calendar date
\* among the timestamps of the top_posts rows and no row of another date,
\* wherever the top rows sit in the input table.
C4_OneRowPerDate ==
    ret # None =>
        /\ \A d \in TopDates :
               Cardinality({j \in 1..Len(ret.daily_top_posts.rows) :
                               DateOf(ret.daily_top_posts.rows[j]) = d}) = 1
        /\ \A row \in RowSet(ret.daily_top_posts) : DateOf(row) \in TopDates

\* C5 as stated: every row of daily_top_posts has the largest likes among the
\* top_posts rows of its calendar date, and is the first of them in top_posts
\* order when several have the largest likes.
C5_MaxLikesOfDate ==
    ret # None =>
        \A row \in RowSet(ret.daily_top_posts) :
            \A other \in RowSet(ret.top_posts) :
                DateOf(other) = DateOf(row) =>
                    \/ other.likes < row.likes
                    \/ other.likes = row.likes /\ row.index <= other.index

\* C6 as stated: whenever one of the seven required columns is absent,
\* validate_schema fails with MissingColumnException naming the first absent
\* column in the order id, title, privacy, likes, views, comments, timestamp,
\* also when a column that is present has a wrong type.
C6_FirstMissingColumn ==
    (ValidationEnded /\ ~AllColumnsPresent(posts_df)) =>
        LET absent == {i \in 1..Len(RequiredColumns) :
                          RequiredColumns[i] \notin DOMAIN posts_df.dtypes}
            first == CHOOSE i \in absent : \A j \in absent : i <= j
        IN  /\ error.kind = "MissingColumnException"
            /\ error.column = RequiredColumns[first]

\* C7: validate_schema returns without error exactly when all seven columns
\* are present with their required types; when all seven are present and
\* one has another type it fails with UnsupportedColumnTypeException naming
\* a column whose type does differ, its expected type and its actual type.
C7_ValidIffPresentAndTyped ==
    ValidationEnded =>
        /\ ValidationRaised = NoError <=> SchemaIsValid(posts_df)
        /\ (AllColumnsPresent(posts_df) /\ Mismatched(posts_df) # {}) =>
               /\ error.kind = "UnsupportedColumnTypeException"
               /\ error.column \in Mismatched(posts_df)
               /\ error.expected =
                      (IF RequiredDtype(error.column) = "int64" THEN "int" ELSE "object")
               /\ error.actual = posts_df.dtypes[error.column]

C7_Witness ==
    /\ ValidationEnded
    /\ AllColumnsPresent(posts_df)
    /\ Cardinality(Mismatched(posts_df)) = 2
    /\ error.kind = "UnsupportedColumnTypeException"

\* C8: classification and daily aggregation happen only on a table that has
\* passed validation; when validation fails or a timestamp of a top row does
\* not parse, the run ends with that failure and no table is returned; no
\* output file is written unless load_posts and analyze_posts have both
\* completed without failure.
C8_FailFast ==
    /\ (top_posts_df # None \/ other_posts_df # None \/ daily_top_posts_df # None
            \/ ret # None)
           => (posts_df # None /\ SchemaIsValid(posts_df))
    /\ daily_top_posts_df # None => (top_posts_df # None /\ other_posts_df # None)
    /\ error # NoError => (pc = "failed" /\ ret = None /\ written = {})
    /\ (ValidationEnded /\ ~SchemaIsValid(posts_df)) => error = ValidationRaised /\ error # NoError
    /\ ( /\ posts_df # None
         /\ pc \notin {"validate_schema", "classify", "collect_daily_top_posts"}
         /\ SchemaIsValid(posts_df)
         /\ \E row \in RowSet(posts_df) :
                MeetsCriteria(row) /\ ToDatetime(row.timestamp).kind # "Timestamp" )
           => (error = ParserError /\ ret = None)
    /\ written # {} => (posts_df # None /\ ret # None /\ error = NoError)

C8_Witness ==
    /\ pc = "failed"
    /\ error = ParserError
    /\ posts_df # None
    /\ \E row \in RowSet(posts_df) : ~MeetsCriteria(row)
    /\ ret = None
    /\ written = {}

\* C9 as stated: two runs of analyze_posts on the same input table end the
\* same way: the same three tables, or the same exception naming the same
\* column, also for a table with more than one defect.
C9_SameOutcome ==
    (prev # None /\ posts_df # None /\ pc \in {"done", "failed"}) =>
        (prev.ret = ret /\ prev.error = error)

\* C10: top_posts and other_posts are each the input rows of some positions
\* in input order, every input position is in exactly one of them (also when
\* ids repeat), their lengths add up to the length of the input, and the
\* input table is as it was loaded.
C10_OrderPreservingPartition ==
    ret # None =>
        LET top == ret.top_posts.rows
            other == ret.other_posts.rows
            InOrder(rows) ==
                /\ \A j \in 1..Len(rows) :
                       /\ rows[j].index + 1 \in 1..Len(posts_df.rows)
                       /\ rows[j] = posts_df.rows[rows[j].index + 1]
                /\ \A j, k \in 1..Len(rows) : j < k => rows[j].index < rows[k].index
            Times(rows, i) == Cardinality({j \in 1..Len(rows) : rows[j].index = i - 1})
        IN  /\ InOrder(top)
            /\ InOrder(other)
            /\ \A i \in 1..Len(posts_df.rows) : Times(top, i) + Times(other, i) = 1
            /\ Len(top) + Len(other) = Len(posts_df.rows)
            /\ posts_df = read_csv(csv)

C10_Witness ==
    /\ ret # None
    /\ Len(ret.top_posts.rows) >= 1
    /\ \E i, j \in 1..Len(ret.other_posts.rows) :
           i # j /\ ret.other_posts.rows[i].id = ret.other_posts.rows[j].id
    /\ \E row \in RowSet(ret.other_posts) : row.id \in IdSet(ret.top_posts)

=============================================================================
